---- MODULE Spec2Model ----
(***************************************************************************)
(* Model of the tech-market dashboard (src/src/dashboard.py): the cached   *)
(* load of the job-postings CSV, the sidebar filters, the keyword          *)
(* frequency aggregation (get_top_skills) and the skill-pair aggregation   *)
(* of main().  Text is modelled as sequences of code points so that        *)
(* split / strip / lower / sorted are computed, not assumed.               *)
(***************************************************************************)
EXTENDS Integers, Sequences, FiniteSets, TLC

\* ---- bounds ----
MaxRows == 2          \* rows in the CSV file
MaxN    == 3          \* largest n handed to get_top_skills by a direct call

\* ---- program constants ----
AllSkillsN == 1000    \* get_top_skills(filtered_df, 1000)
TopSkillsN == 20      \* get_top_skills(filtered_df, 20)
TopPairsN  == 10      \* Counter(skill_pairs).most_common(10)
HottestN   == 1       \* get_top_skills(filtered_df, 1)

\* ---- text: sequences of code points ----
Comma      == 44
Whitespace == {9, 10, 32}

go       == <<103, 111>>                 \* "go"
rust     == <<114, 117, 115, 116>>       \* "rust"
aws      == <<97, 119, 115>>             \* "aws"
remote   == <<114, 101, 109, 111, 116, 101>>   \* 'remote'
NotAvail == <<78, 47, 65>>               \* 'N/A'

\* a CSV cell: missing (NaN after read_csv) or a text
NaN    == [na |-> TRUE,  text |-> <<>>]
Str(s) == [na |-> FALSE, text |-> s]

\* Series.fillna('')
fillna(c) == IF c.na THEN <<>> ELSE c.text

\* str.lower() on ASCII text
lower(s) == [i \in 1..Len(s) |-> IF s[i] \in 65..90 THEN s[i] + 32 ELSE s[i]]

\* str.strip(): drop leading and trailing whitespace
RECURSIVE lstrip(_)
lstrip(s) == IF s # <<>> /\ Head(s) \in Whitespace THEN lstrip(Tail(s)) ELSE s

RECURSIVE rstrip(_)
rstrip(s) == IF s # <<>> /\ s[Len(s)] \in Whitespace
             THEN rstrip(SubSeq(s, 1, Len(s) - 1)) ELSE s

strip(s) == rstrip(lstrip(s))

\* str.split(','): always at least one piece, empty pieces kept
RECURSIVE split(_)
split(s) ==
  IF \E i \in 1..Len(s) : s[i] = Comma
  THEN LET i == CHOOSE k \in 1..Len(s) :
                  s[k] = Comma /\ \A m \in 1..(k - 1) : s[m] # Comma
       IN  <<SubSeq(s, 1, i - 1)>> \o split(SubSeq(s, i + 1, Len(s)))
  ELSE <<s>>

\* str.contains(pat) for a literal pattern
contains(s, pat) ==
  \E i \in 1..(Len(s) - Len(pat) + 1) : SubSeq(s, i, i + Len(pat) - 1) = pat

\* Python's < on str: lexicographic by code point, a proper prefix is smaller
RECURSIVE StrLess(_, _)
StrLess(a, b) ==
  IF b = <<>> THEN FALSE
  ELSE IF a = <<>> THEN TRUE
  ELSE IF Head(a) # Head(b) THEN Head(a) < Head(b)
  ELSE StrLess(Tail(a), Tail(b))

\* [k.strip().lower() for k in str(x).split(',') if k.strip()]
RECURSIVE tokens(_)
tokens(parts) ==
  IF parts = <<>> THEN <<>>
  ELSE IF strip(Head(parts)) # <<>>
       THEN <<lower(strip(Head(parts)))>> \o tokens(Tail(parts))
       ELSE tokens(Tail(parts))

keywords_list(cell) == tokens(split(fillna(cell)))

\* ---- the CSV file ----
KeywordCells ==
  { NaN,
    Str(<<103, 111>>),                                          \* "go"
    Str(<<103, 111, 44, 103, 111, 44, 114, 117, 115, 116>>),    \* "go,go,rust"
    Str(<<32, 82, 117, 115, 116, 32, 44, 44, 65, 87, 83>>) }    \* " Rust ,,AWS"

Remote_ == Str(<<82, 101, 109, 111, 116, 101>>)     \* "Remote"
NYC     == Str(<<78, 89, 67>>)                       \* "NYC"

Categories == {"Data", "Web"}
GoodDate   == "2024-05-01"
NaT        == "NaT"
BadDate    == "soon"

\* the rows a file is made of: well-formed rows of two kinds of posting with
\* every keywords cell, a row with every optional cell missing, and a row
\* whose date_posted does not parse
RowPool ==
  { [category |-> p[1], location |-> p[2], date_posted |-> GoodDate,
     keywords |-> k] : p \in {<<"Data", Remote_>>, <<"Web", NYC>>},
                       k \in KeywordCells }
  \cup
  { [category |-> "Data", location |-> NaN, date_posted |-> "NaN",
     keywords |-> NaN],
    [category |-> "Web", location |-> NYC, date_posted |-> BadDate,
     keywords |-> Str(<<103, 111, 44, 103, 111, 44, 114, 117, 115, 116>>)] }

Files == UNION { [1..k -> RowPool] : k \in 0..MaxRows }

\* pd.to_datetime on one cell: NaN -> NaT, a date -> itself, else it raises
to_datetime(c) ==
  IF c = "NaN" THEN [raised |-> FALSE, value |-> NaT]
  ELSE IF c = GoodDate THEN [raised |-> FALSE, value |-> c]
  ELSE [raised |-> TRUE, value |-> NaT]

\* load_data(): any exception inside the try block gives None
load_data(file) ==
  IF \E i \in 1..Len(file) : to_datetime(file[i].date_posted).raised
  THEN [state |-> "none", rows |-> <<>>]
  ELSE [state |-> "df",
        rows  |-> [i \in 1..Len(file) |->
                    [category      |-> file[i].category,
                     date_posted   |-> to_datetime(file[i].date_posted).value,
                     keywords_list |-> keywords_list(file[i].keywords),
                     is_remote     |-> contains(lower(fillna(file[i].location)),
                                                remote)]]]

\* ---- Counter ----
\* a Counter is a sequence of <<key, count>> in insertion order
CounterAdd(c, x) ==
  IF \E i \in 1..Len(c) : c[i][1] = x
  THEN LET i == CHOOSE k \in 1..Len(c) : c[k][1] = x
       IN  [c EXCEPT ![i] = <<x, c[i][2] + 1>>]
  ELSE Append(c, <<x, 1>>)

RECURSIVE CounterFrom(_, _)
CounterFrom(c, xs) ==
  IF xs = <<>> THEN c ELSE CounterFrom(CounterAdd(c, Head(xs)), Tail(xs))

Counter(xs) == CounterFrom(<<>>, xs)

\* sorted(items, key=count, reverse=True): stable, ties keep insertion order
SortedDesc(c) ==
  LET rank(i) == 1 + Cardinality({ j \in 1..Len(c) :
                       \/ c[j][2] > c[i][2]
                       \/ (c[j][2] = c[i][2] /\ j < i) })
  IN  [p \in 1..Len(c) |-> c[CHOOSE i \in 1..Len(c) : rank(i) = p]]

Take(s, n) == SubSeq(s, 1, IF n < Len(s) THEN n ELSE Len(s))

\* Counter.most_common(n) with an unsorted result (insertion order kept)
most_common_unsorted(c, n) == IF n <= 0 THEN <<>> ELSE Take(c, n)

\* Counter.most_common(n) as sorted(...)[:n], Python slice semantics for n < 0
most_common_slice(c, n) ==
  IF n >= 0 THEN Take(SortedDesc(c), n)
  ELSE SubSeq(SortedDesc(c), 1, IF Len(c) + n > 0 THEN Len(c) + n ELSE 0)

\* Counter.most_common(n) that forgets to cut the result at n
most_common_uncut(c, n) == IF n <= 0 THEN <<>> ELSE SortedDesc(c)

\* Counter.most_common(n) for an integer n: heapq.nlargest(n, items, key=count),
\* i.e. the first n of the stable descending sort, and [] when n <= 0
most_common(c, n) == IF n <= 0 THEN <<>> ELSE Take(SortedDesc(c), n)

\* ---- get_top_skills ----
\* all_skills: every row's keywords_list, appended in row order
RECURSIVE all_skills(_)
all_skills(df) ==
  IF df = <<>> THEN <<>> ELSE Head(df).keywords_list \o all_skills(Tail(df))

\* first-seen distinct elements of a list
RECURSIVE dedup(_)
dedup(xs) ==
  IF xs = <<>> THEN <<>>
  ELSE LET d == dedup(SubSeq(xs, 1, Len(xs) - 1))
       IN  IF \E i \in 1..Len(d) : d[i] = xs[Len(xs)] THEN d
           ELSE Append(d, xs[Len(xs)])

RECURSIVE all_skills_once(_)
all_skills_once(df) ==
  IF df = <<>> THEN <<>>
  ELSE dedup(Head(df).keywords_list) \o all_skills_once(Tail(df))

\* get_top_skills counting a keyword once per posting
get_top_skills_once(df, n) ==
  [raised |-> FALSE, value |-> most_common(Counter(all_skills_once(df)), n)]

\* the result of a call: the returned list, or an exception raised
get_top_skills(df, n) ==
  [raised |-> FALSE, value |-> most_common(Counter(all_skills(df)), n)]

\* ---- skill pairs ----
\* tuple(sorted([a, b])) that keeps the list order
sorted_pair_asis(a, b) == <<a, b>>

\* tuple(sorted([a, b]))
sorted_pair(a, b) == IF StrLess(b, a) THEN <<b, a>> ELSE <<a, b>>

\* the index pairs (i, j) for i from `i` up, j from i + off up to k, loop order
RECURSIVE PairsFrom(_, _, _)
PairsFrom(i, off, k) ==
  IF i > k THEN <<>>
  ELSE [m \in 1..(k - (i + off) + 1) |-> <<i, i + off + m - 1>>]
       \o PairsFrom(i + 1, off, k)

\* the index loops with the inner loop starting at i instead of i+1
IndexPairsInclusive(k) == PairsFrom(1, 0, k)

\* for i in range(k): for j in range(i+1, k)   (1-based here)
IndexPairs(k) == PairsFrom(1, 1, k)

\* the pairs one posting appends to skill_pairs
pairs_of(skills) ==
  IF Len(skills) >= 2
  THEN LET ip == IndexPairs(Len(skills))
       IN  [p \in 1..Len(ip) |-> sorted_pair(skills[ip[p][1]], skills[ip[p][2]])]
  ELSE <<>>

RECURSIVE skill_pairs_of(_)
skill_pairs_of(df) ==
  IF df = <<>> THEN <<>>
  ELSE pairs_of(Head(df).keywords_list) \o skill_pairs_of(Tail(df))

\* ---- state ----
VARIABLES
  csv,                \* the rows of data/jobs_data.csv
  cache,              \* st.cache_data memo of load_data(): unset, None or df
  selected_category,  \* sidebar selectbox "Job Category"
  remote_option,      \* sidebar selectbox "Work Type"
  status,             \* what the last run of main() rendered
  filtered_df,        \* the filtered view of the last run
  unique_skills,      \* len(all_skills), the "Unique Skills" metric
  top_skills,         \* get_top_skills(filtered_df, 20)
  skill_pairs,        \* the list of pairs built by the index loops
  pair_counts,        \* Counter(skill_pairs).most_common(10)
  top_skill,          \* the "Hottest Skill" insight (keyword, count)
  call                \* the last direct call get_top_skills(filtered_df, n)

vars == <<csv, cache, selected_category, remote_option, status, filtered_df,
          unique_skills, top_skills, skill_pairs, pair_counts, top_skill, call>>

\* ---- filters ----
CategoryOptions(df) == {"All"} \cup { df[i].category : i \in 1..Len(df) }
RemoteOptions == {"All", "Remote Only", "On-site Only"}

\* filtered_df = df.copy() reading the previous run's view instead
df_copy_stale(df) == IF status = "ok" THEN filtered_df ELSE df

\* filtered_df = df.copy()
df_copy(df) == df

apply_filters(df, cat, rem) ==
  LET f0 == df_copy(df)
      f1 == IF cat # "All"
            THEN SelectSeq(f0, LAMBDA r : r.category = cat) ELSE f0
  IN  IF rem = "Remote Only" THEN SelectSeq(f1, LAMBDA r : r.is_remote = TRUE)
      ELSE IF rem = "On-site Only"
           THEN SelectSeq(f1, LAMBDA r : r.is_remote = FALSE)
           ELSE f1

NoCall == [done |-> FALSE, n |-> 0, raised |-> FALSE, value |-> <<>>]
NValues == (-1)..MaxN

Init ==
  /\ csv \in Files
  /\ cache = [state |-> "unset", rows |-> <<>>]
  /\ selected_category = "All"
  /\ remote_option = "All"
  /\ status = "blank"
  /\ filtered_df = <<>>
  /\ unique_skills = 0
  /\ top_skills = <<>>
  /\ skill_pairs = <<>>
  /\ pair_counts = <<>>
  /\ top_skill = <<NotAvail, 0>>
  /\ call = NoCall

\* nothing is rendered below the point where main() returned
BlankTables ==
  /\ unique_skills' = 0
  /\ top_skills' = <<>>
  /\ skill_pairs' = <<>>
  /\ pair_counts' = <<>>
  /\ top_skill' = <<NotAvail, 0>>

\* one run of main() with the sidebar at (cat, rem).  The widgets exist only
\* once a run got past load_data(), so before that the selection is the default.
Main(cat, rem) ==
  LET df == IF cache.state = "unset" THEN load_data(csv) ELSE cache
  IN  /\ IF status \in {"ok", "warning"}
         THEN cat \in CategoryOptions(cache.rows) /\ rem \in RemoteOptions
         ELSE cat = "All" /\ rem = "All"
      /\ cache' = df
      /\ selected_category' = cat
      /\ remote_option' = rem
      /\ call' = NoCall
      /\ csv' = csv
      /\ IF df.state = "none"
         THEN /\ status' = "error"
              /\ filtered_df' = <<>>
              /\ BlankTables
         ELSE LET f == apply_filters(df.rows, cat, rem)
              IN  /\ filtered_df' = f
                  /\ IF Len(f) = 0
                     THEN /\ status' = "warning"
                          /\ BlankTables
                     ELSE LET hot == get_top_skills(f, HottestN).value
                          IN  /\ status' = "ok"
                              /\ unique_skills' =
                                   Len(get_top_skills(f, AllSkillsN).value)
                              /\ top_skills' = get_top_skills(f, TopSkillsN).value
                              /\ skill_pairs' = skill_pairs_of(f)
                              /\ pair_counts' =
                                   most_common(Counter(skill_pairs_of(f)), TopPairsN)
                              /\ top_skill' = IF hot # <<>> THEN hot[1]
                                              ELSE <<NotAvail, 0>>

\* a direct call get_top_skills(filtered_df, n) on the view in scope
TopKeywords(n) ==
  /\ status \in {"ok", "warning"}
  /\ call' = [done   |-> TRUE, n |-> n,
              raised |-> get_top_skills(filtered_df, n).raised,
              value  |-> get_top_skills(filtered_df, n).value]
  /\ UNCHANGED <<csv, cache, selected_category, remote_option, status,
                 filtered_df, unique_skills, top_skills, skill_pairs,
                 pair_counts, top_skill>>

Next ==
  \/ \E cat \in {"All"} \cup Categories, rem \in RemoteOptions : Main(cat, rem)
  \/ \E n \in NValues : TopKeywords(n)

Spec == Init /\ [][Next]_vars

\* ---- vocabulary of the properties ----
KeywordLists(df) == [r \in 1..Len(df) |-> df[r].keywords_list]

\* the positions <<record, index>> that hold a keyword
Positions(df) ==
  UNION { { <<r, i>> : i \in 1..Len(df[r].keywords_list) } : r \in 1..Len(df) }

KeywordAt(df, q) == df[q[1]].keywords_list[q[2]]

DistinctKeywords(df) == { KeywordAt(df, q) : q \in Positions(df) }
Occurrences(df, k)   == Cardinality({ q \in Positions(df) : KeywordAt(df, q) = k })
TotalOccurrences(df) == Cardinality(Positions(df))

\* the position pairs <<record, i, j>> with i < j inside one record
PositionPairs(df) ==
  UNION { { <<r, i, j>> : i \in 1..Len(df[r].keywords_list),
                          j \in 1..Len(df[r].keywords_list) }
          : r \in 1..Len(df) }

\* how many position pairs i < j of the view carry the two keywords of pair p
PairOccurrences(df, p) ==
  Cardinality({ t \in PositionPairs(df) :
      LET skills == df[t[1]].keywords_list
      IN  /\ t[2] < t[3]
          /\ \/ (skills[t[2]] = p[1] /\ skills[t[3]] = p[2])
             \/ (skills[t[2]] = p[2] /\ skills[t[3]] = p[1]) })

RECURSIVE SumCounts(_)
SumCounts(t) == IF t = <<>> THEN 0 ELSE Head(t)[2] + SumCounts(Tail(t))

RECURSIVE SumPairIncrements(_)
SumPairIncrements(df) ==
  IF df = <<>> THEN 0
  ELSE LET k == Len(Head(df).keywords_list)
       IN  (k * (k - 1)) \div 2 + SumPairIncrements(Tail(df))

CountsOf(t) == [i \in 1..Len(t) |-> t[i][2]]

TimesIn(xs, x) == Cardinality({ i \in 1..Len(xs) : xs[i] = x })

\* the records a selection keeps, stated on the rows rather than by the
\* successive reassignments of filtered_df
ViewOf(rows, cat, rem) ==
  SelectSeq(rows, LAMBDA r :
    /\ (cat = "All" \/ r.category = cat)
    /\ (rem = "Remote Only" => r.is_remote)
    /\ (rem = "On-site Only" => ~r.is_remote))

Reordered(df, p) == [i \in 1..Len(df) |-> df[p[i]]]

\* ---- C1 ----
\* C1: a call get_top_skills(view, n) with n > 0 returns at most n entries,
\* every count is positive and the counts never increase along the result.
C1_TopKeywordsBounded ==
  (call.done /\ call.n > 0) =>
    /\ Len(call.value) <= call.n
    /\ \A i \in 1..Len(call.value) : call.value[i][2] > 0
    /\ \A i, j \in 1..Len(call.value) :
         i < j => call.value[i][2] >= call.value[j][2]

\* a call that had to cut: more distinct keywords than n, n entries returned
C1_Witness ==
  /\ call.done /\ call.n >= 2
  /\ Len(call.value) = call.n
  /\ Cardinality(DistinctKeywords(filtered_df)) > call.n

\* ---- C2 ----
\* C2: when n is the number of distinct keywords of the view, the counts
\* returned add up to the number of keyword occurrences in the view, a
\* token repeated inside one record counted each time.
C2_SumEqualsOccurrences ==
  (call.done /\ call.n = Cardinality(DistinctKeywords(filtered_df))) =>
    SumCounts(call.value) = TotalOccurrences(filtered_df)

\* such a call on a view where one record repeats a token
C2_Witness ==
  /\ call.done /\ call.n >= 2
  /\ call.n = Cardinality(DistinctKeywords(filtered_df))
  /\ \E r \in 1..Len(filtered_df) :
       \E i, j \in 1..Len(filtered_df[r].keywords_list) :
         i < j /\ filtered_df[r].keywords_list[i] = filtered_df[r].keywords_list[j]

\* ---- C3 ----
\* C3: the pair list holds exactly k*(k-1)/2 pairs per record of k keywords
\* (none for k < 2), every pair coming from two positions i < j of one
\* record, so the pair counts add up to the sum of k*(k-1)/2.
C3_PairIncrements ==
  status = "ok" =>
    /\ Len(skill_pairs) = SumPairIncrements(filtered_df)
    /\ \A i \in 1..Len(skill_pairs) :
         TimesIn(skill_pairs, skill_pairs[i]) =
           PairOccurrences(filtered_df, skill_pairs[i])
    /\ \A i \in 1..Len(pair_counts) :
         pair_counts[i][2] = PairOccurrences(filtered_df, pair_counts[i][1])
    /\ Len(pair_counts) < TopPairsN =>
         SumCounts(pair_counts) = SumPairIncrements(filtered_df)
    /\ (\A r \in 1..Len(filtered_df) : Len(filtered_df[r].keywords_list) < 2)
         => pair_counts = <<>>

\* a view with a record of fewer than two keywords next to one of three
C3_Witness ==
  /\ status = "ok"
  /\ \E r \in 1..Len(filtered_df) : Len(filtered_df[r].keywords_list) = 1
  /\ \E r \in 1..Len(filtered_df) : Len(filtered_df[r].keywords_list) = 3
  /\ Len(skill_pairs) = 3

\* ---- C4 ----
\* C4 as stated: every entry of the pair table has keyword_a strictly below
\* keyword_b.
C4_StrictlyOrderedPairs ==
  status = "ok" =>
    \A i \in 1..Len(pair_counts) :
      StrLess(pair_counts[i][1][1], pair_counts[i][1][2])

\* C4 amended: every entry of the pair table has keyword_a below or equal to
\* keyword_b, and the two are equal only when a record of the view holds
\* that keyword at two positions.
C4_OrderedPairs ==
  status = "ok" =>
    \A i \in 1..Len(pair_counts) :
      LET a == pair_counts[i][1][1]
          b == pair_counts[i][1][2]
      IN  /\ ~StrLess(b, a)
          /\ (StrLess(a, b) \/ a = b)
          /\ a = b =>
               \E r \in 1..Len(filtered_df) :
                 \E m, k \in 1..Len(filtered_df[r].keywords_list) :
                   /\ m < k
                   /\ filtered_df[r].keywords_list[m] = a
                   /\ filtered_df[r].keywords_list[k] = a

\* a table with a self-pair and with a pair whose record lists b before a
C4_Witness ==
  /\ status = "ok"
  /\ \E i \in 1..Len(pair_counts) : pair_counts[i][1][1] = pair_counts[i][1][2]
  /\ \E i \in 1..Len(pair_counts) :
       \E r \in 1..Len(filtered_df) :
         LET skills == filtered_df[r].keywords_list
         IN  \E m, k \in 1..Len(skills) :
               /\ m < k
               /\ skills[m] = pair_counts[i][1][2]
               /\ skills[k] = pair_counts[i][1][1]
               /\ StrLess(skills[k], skills[m])

\* ---- C5 ----
OnlyGoGoRust ==
  status = "ok" /\ KeywordLists(filtered_df) = << <<go, go, rust>> >>

\* C5 as stated: for the single record ["go","go","rust"] the pair table is
\* [(("go","go"),1), (("go","rust"),2)].
C5_ExampleAsStated ==
  OnlyGoGoRust => pair_counts = << << <<go, go>>, 1 >>, << <<go, rust>>, 2 >> >>

\* C5 amended: for the single record ["go","go","rust"] the pair table is
\* [(("go","rust"),2), (("go","go"),1)], the larger count first.
C5_ExampleByCount ==
  OnlyGoGoRust => pair_counts = << << <<go, rust>>, 2 >>, << <<go, go>>, 1 >> >>

C5_Witness == OnlyGoGoRust /\ Len(pair_counts) = 2

\* ---- C6 ----
\* C6 as stated: a call with n <= 0 raises.
C6_NonPositiveRaises ==
  (call.done /\ call.n <= 0) => call.raised

\* C6 amended: a call with n <= 0 raises nothing and returns the empty list.
C6_NonPositiveEmpty ==
  (call.done /\ call.n <= 0) => (~call.raised /\ call.value = <<>>)

\* a call with a negative n on a view with at least two distinct keywords
C6_Witness ==
  /\ call.done /\ call.n < 0
  /\ Cardinality(DistinctKeywords(filtered_df)) >= 2

\* ---- C7 ----
\* C7: once load_data() has run, a Dataset exists with one record per row, a
\* row with a missing keywords cell has an empty keyword list and a row with
\* an unparseable date_posted has a null date.
C7_MalformedRowsRecovered ==
  cache.state # "unset" =>
    /\ cache.state = "df"
    /\ Len(cache.rows) = Len(csv)
    /\ \A i \in 1..Len(csv) :
         /\ csv[i].keywords.na => cache.rows[i].keywords_list = <<>>
         /\ to_datetime(csv[i].date_posted).raised =>
              cache.rows[i].date_posted = NaT

\* ---- C8 ----
\* C8: for n > 0, calling get_top_skills on any reordering of the view's
\* records returns the same sequence of counts as on the view, and every
\* returned keyword carries its number of occurrences.
C8_ReorderInvariant ==
  (call.done /\ call.n > 0) =>
    \A p \in Permutations(1..Len(filtered_df)) :
      LET other == get_top_skills(Reordered(filtered_df, p), call.n).value
      IN  /\ CountsOf(other) = CountsOf(call.value)
          /\ \A i \in 1..Len(other) :
               other[i][2] = Occurrences(filtered_df, other[i][1])

\* a call whose result names other keywords once the records are reordered
C8_Witness ==
  /\ call.done /\ call.n > 0
  /\ \E p \in Permutations(1..Len(filtered_df)) :
       get_top_skills(Reordered(filtered_df, p), call.n).value # call.value

\* ---- C9 ----
\* C9: whatever filter changes came before, the Dataset is still the one
\* load_data() made of the file, and the view and the tables of the current
\* run are those of that Dataset under the current selection.
C9_TablesOfSelection ==
  /\ cache.state # "unset" => cache = load_data(csv)
  /\ status \in {"ok", "warning"} =>
       LET view == ViewOf(load_data(csv).rows, selected_category, remote_option)
       IN  /\ filtered_df = view
           /\ status = "ok" <=> view # <<>>
           /\ status = "ok" =>
                /\ top_skills = get_top_skills(view, TopSkillsN).value
                /\ skill_pairs = skill_pairs_of(view)
                /\ pair_counts = most_common(Counter(skill_pairs_of(view)), TopPairsN)
           /\ status = "warning" => (top_skills = <<>> /\ pair_counts = <<>>)

\* a run under a selection that drops some records and keeps others
C9_Witness ==
  /\ status = "ok"
  /\ selected_category # "All"
  /\ remote_option # "All"
  /\ Len(filtered_df) < Len(cache.rows)
  /\ pair_counts # <<>>

\* ---- C10 ----
\* C10: the count shown for the hottest skill as the number of postings it
\* appears in is at most the number of records in the view.
C10_HottestWithinView ==
  status = "ok" => top_skill[2] <= Len(filtered_df)

====
